---- MODULE Spec2Model ----
(***************************************************************************)
(* Counterparty / Charterer search (src/app.py): a Streamlit script over a  *)
(* Google Sheet.  Python strings are modelled as sequences of one-character *)
(* strings, so that trimming, lower-casing and substring tests are          *)
(* computed and not assumed.                                                *)
(***************************************************************************)
EXTENDS Integers, Sequences, FiniteSets, TLC

VARIABLES
    sheet,          \* the worksheet: ws.get_all_values(), row 1 the header row
    cache_valid,    \* st.cache_data holds load_sheet's result
    df,             \* load_sheet's DataFrame: rows of cleaned cells and _rownum
    headers,        \* load_sheet's headers
    col_status, col_charterer, col_company, col_owner, col_address,
                    \* the script's column mapping (None: not found)
    search_text,    \* the search text input
    show_only,      \* the "Only show matches" checkbox
    selected,       \* the charterer selectbox
    pick,           \* the "Pick record" selectbox, None while it is not drawn
    user_picked,    \* the user has chosen the "Pick record" value
    df_filtered,    \* the rows of the table view
    options_unique, \* the charterer selectbox's options, without "(select)"
    row,            \* the details view's record: <<>> or one row
    admin_ok,       \* st.session_state["admin_ok"]
    pw,             \* the password last submitted in the login form
    selected_label, \* the "Select record to edit" selectbox
    form,           \* the dict of the form last submitted (new_data / edited)
    form_changed,   \* the user altered a widget of that form before submitting
    msg,            \* the message the admin section of the last run showed
    calls,          \* the worksheet calls of the last script run
    writes,         \* form submissions so far
    rerun,          \* st.rerun() was called: the next run is the rerun
    fc_cols,        \* _find_col: list(df.columns)
    fc_cands,       \* _find_col: candidates
    fc_result       \* _find_col: the value returned, NotCalled before the call

fcVars == <<fc_cols, fc_cands, fc_result>>
storeVars == <<sheet, cache_valid, df, headers,
               col_status, col_charterer, col_company, col_owner, col_address>>
searchVars == <<search_text, show_only, selected, pick, user_picked,
                df_filtered, options_unique, row>>
adminVars == <<admin_ok, pw, selected_label, form, form_changed, msg, calls,
               writes, rerun>>
vars == <<storeVars, searchVars, adminVars, fcVars>>

(***************************************************************************)
(* Bounds                                                                   *)
(***************************************************************************)
MaxCols == 3        \* _find_col check: at most this many headers
MaxCands == 2       \* _find_col check: at most this many candidates
MaxSearchRows == 2  \* search check: at most this many data rows in the sheet
MaxInitRows == 2    \* write check: at most this many data rows at the start
MaxWrites == 1      \* write check: at most this many form submissions

(***************************************************************************)
(* Python values                                                            *)
(***************************************************************************)
\* Python's None; no string, since every element of a string is one character.
None == <<"<None>">>
\* fc_result before _find_col has been called.
NotCalled == <<"<not called>">>

SeqsUpTo(S, n) == UNION {[1..k -> S] : k \in 0..n}

Max(S) == CHOOSE x \in S : \A y \in S : y <= x
Min(S) == CHOOSE x \in S : \A y \in S : x <= y

UpperChars == <<"A","B","C","D","E","F","G","H","I","J","K","L","M","N","O","P","Q","R","S","T","U","V","W","X","Y","Z">>
LowerChars == <<"a","b","c","d","e","f","g","h","i","j","k","l","m","n","o","p","q","r","s","t","u","v","w","x","y","z">>

\* str.lower() on one character: the upper-case letters and their images
LowerOfUpper ==
    [c \in {UpperChars[i] : i \in 1..26} |->
        LowerChars[CHOOSE i \in 1..26 : UpperChars[i] = c]]
LowerChar(c) == IF c \in DOMAIN LowerOfUpper THEN LowerOfUpper[c] ELSE c

\* str.lower()
Lower(s) == [i \in 1..Len(s) |-> LowerChar(s[i])]

\* needle in hay (Python's substring test)
Contains(needle, hay) ==
    \E i \in 0..(Len(hay) - Len(needle)) :
        SubSeq(hay, i + 1, i + Len(needle)) = needle

\* The characters str.strip() removes that occur in the model's alphabet.
Whitespace == {" ", "\t", "\n"}

RECURSIVE LStrip(_)
LStrip(s) == IF s # <<>> /\ Head(s) \in Whitespace THEN LStrip(Tail(s)) ELSE s

RECURSIVE RStrip(_)
RStrip(s) ==
    IF s # <<>> /\ s[Len(s)] \in Whitespace
    THEN RStrip(SubSeq(s, 1, Len(s) - 1))
    ELSE s

\* str.strip()
Strip(s) == RStrip(LStrip(s))

\* The class [ \t] of the regular expression in _clean_cell.
Blank == {" ", "\t"}

RECURSIVE DropBlanks(_)
DropBlanks(s) == IF s # <<>> /\ Head(s) \in Blank THEN DropBlanks(Tail(s)) ELSE s

\* re.sub(r"[ \t]+", " ", s)
RECURSIVE CollapseBlanks(_)
CollapseBlanks(s) ==
    IF s = <<>> THEN <<>>
    ELSE IF Head(s) \in Blank
         THEN <<" ">> \o CollapseBlanks(DropBlanks(Tail(s)))
         ELSE <<Head(s)>> \o CollapseBlanks(Tail(s))

\* _clean_cell on a string (None never reaches it: every cell and every
\* widget value is a string)
_clean_cell(x) == Strip(CollapseBlanks(x))

(***************************************************************************)
(* _find_col                                                                *)
(***************************************************************************)
\* lowered = {c.lower(): c for c in cols}: of two columns with the same
\* lower-cased name the later one stays in the dict.
lowered(cols, key) ==
    LET idx == {i \in 1..Len(cols) : Lower(cols[i]) = key}
    IN  IF idx = {} THEN None ELSE cols[Max(idx)]

\* for cand in candidates: if cand.lower() in lowered: return lowered[...]
RECURSIVE ExactPass(_, _, _)
ExactPass(cols, candidates, k) ==
    IF k > Len(candidates) THEN None
    ELSE LET cand_l == Lower(candidates[k])
         IN  IF \E i \in 1..Len(cols) : Lower(cols[i]) = cand_l
             THEN lowered(cols, cand_l)
             ELSE ExactPass(cols, candidates, k + 1)

\* for c in cols: for cand in candidates: if cand.lower() in c.lower(): return c
RECURSIVE SubstringPass(_, _, _)
SubstringPass(cols, candidates, i) ==
    IF i > Len(cols) THEN None
    ELSE IF \E k \in 1..Len(candidates) :
                Contains(Lower(candidates[k]), Lower(cols[i]))
         THEN cols[i]
         ELSE SubstringPass(cols, candidates, i + 1)

\* A resolver that runs the substring scan before the exact pass.
find_col_substring_first(cols, candidates) ==
    LET sub == SubstringPass(cols, candidates, 1)
    IN  IF sub # None THEN sub ELSE ExactPass(cols, candidates, 1)

_find_col(cols, candidates) ==
    LET exact == ExactPass(cols, candidates, 1)
    IN  IF exact # None THEN exact ELSE SubstringPass(cols, candidates, 1)

(***************************************************************************)
(* More of Python's str                                                     *)
(***************************************************************************)
\* The model's characters in code-point order.
Alphabet == <<"\t","\n"," ","!","&","'","(",")","/","0","1","2","3","4","5","6","7","8","9","A","B","C","D","E","F","G","H","I","J","K","L","M","N","O","P","Q","R","S","T","U","V","W","X","Y","Z","_","a","b","c","d","e","f","g","h","i","j","k","l","m","n","o","p","q","r","s","t","u","v","w","x","y","z","|">>
OrdOf ==
    [c \in {Alphabet[i] : i \in 1..Len(Alphabet)} |->
        CHOOSE i \in 1..Len(Alphabet) : Alphabet[i] = c]
Ord(c) == OrdOf[c]

\* a < b on strings
RECURSIVE StrLess(_, _)
StrLess(a, b) ==
    IF b = <<>> THEN FALSE
    ELSE IF a = <<>> THEN TRUE
    ELSE IF Head(a) = Head(b) THEN StrLess(Tail(a), Tail(b))
    ELSE Ord(Head(a)) < Ord(Head(b))

Digits == <<"0","1","2","3","4","5","6","7","8","9">>
\* str(n) for n >= 0
RECURSIVE IntToStr(_)
IntToStr(n) ==
    IF n < 10 THEN <<Digits[n + 1]>>
    ELSE IntToStr(n \div 10) \o <<Digits[(n % 10) + 1]>>

\* int(s) for a string of decimal digits
RECURSIVE ParseInt(_)
ParseInt(s) ==
    IF s = <<>> THEN 0
    ELSE 10 * ParseInt(SubSeq(s, 1, Len(s) - 1))
         + ((CHOOSE i \in 1..10 : Digits[i] = s[Len(s)]) - 1)

\* s.split("|")[0]
RECURSIVE BeforeBar(_)
BeforeBar(s) ==
    IF s = <<>> \/ Head(s) = "|" THEN <<>> ELSE <<Head(s)>> \o BeforeBar(Tail(s))

\* s.replace("Row", "")
RECURSIVE RemoveRow(_)
RemoveRow(s) ==
    IF Len(s) >= 3 /\ SubSeq(s, 1, 3) = <<"R","o","w">> THEN RemoveRow(SubSeq(s, 4, Len(s)))
    ELSE IF s = <<>> THEN <<>>
    ELSE <<Head(s)>> \o RemoveRow(Tail(s))

\* int(label.split("|")[0].replace("Row", "").strip())
LabelRownum(label) == ParseInt(Strip(RemoveRow(BeforeBar(label))))

\* sep.join(parts)
RECURSIVE Join(_, _)
Join(parts, sep) ==
    IF parts = <<>> THEN <<>>
    ELSE IF Len(parts) = 1 THEN parts[1]
    ELSE parts[1] \o sep \o Join(Tail(parts), sep)

(***************************************************************************)
(* Tabular Store: load_sheet, and the column mapping                        *)
(***************************************************************************)
\* for c in df.columns: df[c] = df[c].map(_clean_cell);
\* df["_rownum"] = [i + 2 for i in range(len(df))]
LoadRows(rows) ==
    [i \in 1..Len(rows) |->
        [cells |-> [j \in 1..Len(rows[i]) |-> _clean_cell(rows[i][j])],
         _rownum |-> (i - 1) + 2]]

\* list(df.columns)
Columns(hs) == hs \o <<<<"_","r","o","w","n","u","m">>>>

\* The column mapping of the script (the required fields)
FieldMap(hs) ==
    [col_status |-> _find_col(Columns(hs), <<<<"S","t","a","t","u","s">>>>),
     col_charterer |-> _find_col(Columns(hs), <<<<"C","h","a","r","t","e","r","e","r">>>>),
     col_company |-> _find_col(Columns(hs), <<<<"C","o","m","p","a","n","y">>>>),
     col_owner |-> _find_col(Columns(hs),
                      <<<<"P","a","r","e","n","t"," ","C","o","m","p","a","n","y","/","O","w","n","e","r","s","h","i","p">>, <<"O","w","n","e","r","s","h","i","p">>, <<"P","a","r","e","n","t"," ","C","o","m","p","a","n","y">>>>),
     col_address |-> _find_col(Columns(hs), <<<<"A","d","d","r","e","s","s">>>>)]

\* load_sheet's return value for the worksheet's values, with the column
\* mapping the script computes from it
load_sheet(values) ==
    IF values = <<>> \/ Len(values) < 2
    THEN [df |-> <<>>, headers |-> <<>>, map |-> FieldMap(<<>>)]
    ELSE LET hs == [j \in 1..Len(values[1]) |-> Strip(values[1][j])]
         IN  [df |-> LoadRows(Tail(values)), headers |-> hs, map |-> FieldMap(hs)]

\* The values load_sheet has for the page as drawn: the script's globals
Shown ==
    [df |-> df, headers |-> headers,
     map |-> [col_status |-> col_status, col_charterer |-> col_charterer,
              col_company |-> col_company, col_owner |-> col_owner,
              col_address |-> col_address]]

\* What a script run gets from the cached load_sheet (ttl=60): the cached
\* value, or a fresh read when the cache was cleared or the entry has
\* expired by the time the run starts.
Loaded(expired) == IF cache_valid /\ ~expired THEN Shown ELSE load_sheet(sheet)

\* r[c] for a column label c of the sheet (headers are distinct in every
\* sheet of the model)
Cell(r, hs, c) == r.cells[CHOOSE j \in 1..Len(hs) : hs[j] = c]

\* "if not c": None and the empty header both count as missing
RequiredMissing(map) ==
    \E c \in {map.col_status, map.col_charterer, map.col_company, map.col_owner,
              map.col_address} : c = None \/ c = <<>>

\* The script stops (st.stop) before any widget is drawn.
LoadFatal(ld) == ld.df = <<>> \/ RequiredMissing(ld.map)

(***************************************************************************)
(* Search / filter, selector, details view                                  *)
(***************************************************************************)
Select == <<"(","s","e","l","e","c","t",")">>

\* df_work.astype("string").fillna("").agg(" | ".join, axis=1).str.lower():
\* every column of df_work, the sheet's and _rownum
joined(r) == Lower(Join(r.cells \o <<IntToStr(r._rownum)>>, <<" ","|"," ">>))

\* A filter that tests the whole row whether or not a charterer matched.
SearchFilterWholeRow(d, hs, charterer, text, only) ==
    LET s == Lower(Strip(text))
        m_joined(r) == Contains(s, joined(r))
    IN  IF Strip(text) = <<>> \/ ~only THEN d ELSE SelectSeq(d, m_joined)

\* df_filtered: charterer matches if there are any, else whole-row matches;
\* the whole table when the box "Only show matches" is off
SearchFilter(d, hs, charterer, text, only) ==
    LET s == Lower(Strip(text))
        m_charterer(r) == Contains(s, Lower(Cell(r, hs, charterer)))
        m_joined(r) == Contains(s, joined(r))
        filtered ==
            IF Strip(text) # <<>>
            THEN IF \E i \in 1..Len(d) : m_charterer(d[i])
                 THEN SelectSeq(d, m_charterer)
                 ELSE SelectSeq(d, m_joined)
            ELSE d
    IN  IF ~only /\ Strip(text) # <<>> THEN d ELSE filtered

\* options.unique(): first occurrences, in order
RECURSIVE Unique(_)
Unique(xs) ==
    IF xs = <<>> THEN <<>>
    ELSE LET init == Unique(SubSeq(xs, 1, Len(xs) - 1))
             x == xs[Len(xs)]
         IN  IF \E i \in 1..Len(init) : init[i] = x THEN init ELSE Append(init, x)

\* sorted(xs, key=lambda x: x.lower()): stable insertion by the lower-cased key
RECURSIVE SortedByLower(_)
SortedByLower(xs) ==
    IF xs = <<>> THEN <<>>
    ELSE LET init == SortedByLower(SubSeq(xs, 1, Len(xs) - 1))
             x == xs[Len(xs)]
             n == Cardinality({i \in 1..Len(init) : ~StrLess(Lower(x), Lower(init[i]))})
         IN  SubSeq(init, 1, n) \o <<x>> \o SubSeq(init, n + 1, Len(init))

\* options_unique
Options(filtered, hs, charterer) ==
    LET all == [i \in 1..Len(filtered) |-> Cell(filtered[i], hs, charterer)]
        NonEmpty(x) == Len(x) > 0
    IN  SortedByLower(Unique(SelectSeq(all, NonEmpty)))

\* matches = df_work[df_work[col_charterer] == selected]
Matches(d, hs, charterer, sel) ==
    LET IsSel(r) == Cell(r, hs, charterer) = sel
    IN  SelectSeq(d, IsSel)

\* f"Row {rr['_rownum']} | {rr.get(col_company, '')} | {rr.get(col_status, '')}"
MatchLabel(r, hs, map) ==
    <<"R","o","w"," ">> \o IntToStr(r._rownum) \o <<" ","|"," ">> \o Cell(r, hs, map.col_company)
        \o <<" ","|"," ">> \o Cell(r, hs, map.col_status)

MatchLabels(ld, sel) ==
    LET m == Matches(ld.df, ld.headers, ld.map.col_charterer, sel)
    IN  [i \in 1..Len(m) |-> MatchLabel(m[i], ld.headers, ld.map)]

\* st.selectbox("Pick record", match_labels): the stored choice while it is
\* still one of the labels, else the first label (index 0)
PickValue(labels, sel, stored) ==
    IF sel = Select \/ Len(labels) <= 1 THEN None
    ELSE IF \E i \in 1..Len(labels) : labels[i] = stored THEN stored
    ELSE labels[1]

\* matches.head(1), or with duplicates the row of the picked label
DetailsRow(m, sel, pk) ==
    LET IsPicked(r) == r._rownum = LabelRownum(pk)
    IN  IF sel = Select THEN <<>>
        ELSE IF Len(m) > 1
             THEN SubSeq(SelectSeq(m, IsPicked), 1, 1)
             ELSE SubSeq(m, 1, 1)

\* The load section of a script run: df, headers and the column mapping.
LoadSection(ld) ==
    /\ df' = ld.df
    /\ headers' = ld.headers
    /\ col_status' = ld.map.col_status
    /\ col_charterer' = ld.map.col_charterer
    /\ col_company' = ld.map.col_company
    /\ col_owner' = ld.map.col_owner
    /\ col_address' = ld.map.col_address

\* The search, selector and details sections of a script run with the
\* widgets at the given values.  A selectbox whose option list changed is a
\* new widget and shows index 0.  (Each value is bound once, as the script
\* computes it once.)
ReadSections(ld, text, only, sel, stored, chosen) ==
    \E f \in {SearchFilter(ld.df, ld.headers, ld.map.col_charterer, text, only)} :
    \E opts \in {Options(f, ld.headers, ld.map.col_charterer)} :
    \E sel1 \in {IF opts = options_unique THEN sel ELSE Select} :
    \E pk \in {PickValue(MatchLabels(ld, sel1), sel1, stored)} :
        /\ search_text' = text
        /\ show_only' = only
        /\ df_filtered' = f
        /\ options_unique' = opts
        /\ selected' = sel1
        /\ pick' = pk
        /\ user_picked' = (chosen /\ pk = stored /\ pk # None)
        /\ row' = DetailsRow(Matches(ld.df, ld.headers, ld.map.col_charterer, sel1),
                             sel1, pk)

\* The page is drawn: the script passed both st.stop() of the load section.
PageShown(ld) == ~LoadFatal(ld)

\* The load and read sections of a run
RunRead(ld, text, only, sel, stored, chosen) ==
    /\ PageShown(ld)
    /\ LoadSection(ld)
    /\ cache_valid' = TRUE
    /\ ReadSections(ld, text, only, sel, stored, chosen)

TypeSearch(q, expired) ==
    /\ q # search_text
    /\ \E ld \in {Loaded(expired)} : RunRead(ld, q, show_only, selected, pick, user_picked)
    /\ UNCHANGED <<sheet, adminVars, fcVars>>

ToggleShowOnly(expired) ==
    /\ \E ld \in {Loaded(expired)} : RunRead(ld, search_text, ~show_only, selected, pick, user_picked)
    /\ UNCHANGED <<sheet, adminVars, fcVars>>

SelectCharterer(v, expired) ==
    /\ v # selected
    /\ v = Select \/ \E i \in 1..Len(options_unique) : options_unique[i] = v
    /\ \E ld \in {Loaded(expired)} : RunRead(ld, search_text, show_only, v, None, FALSE)
    /\ UNCHANGED <<sheet, adminVars, fcVars>>

PickRecord(label, expired) ==
    /\ pick # None
    /\ label # pick
    /\ \E i \in 1..Len(MatchLabels(Shown, selected)) :
          MatchLabels(Shown, selected)[i] = label
    /\ \E ld \in {Loaded(expired)} : RunRead(ld, search_text, show_only, selected, label, TRUE)
    /\ UNCHANGED <<sheet, adminVars, fcVars>>

(***************************************************************************)
(* Sheets of the search check                                               *)
(***************************************************************************)
\* Header rows as the sheet holds them, with the field each column carries.
LayoutPlain == [hdr |-> <<<<"C","h","a","r","t","e","r","e","r">>, <<"S","t","a","t","u","s">>, <<"C","o","m","p","a","n","y">>, <<"O","w","n","e","r","s","h","i","p">>, <<"A","d","d","r","e","s","s">>>>,
                fld |-> <<"ch", "st", "co", "ow", "ad">>]
LayoutLoose == [hdr |-> <<<<" ","S","t","a","t","u","s"," ">>, <<"C","o","m","p","a","n","y">>, <<"C","h","a","r","t","e","r","e","r"," ","N","a","m","e">>, <<"P","a","r","e","n","t"," ","C","o","m","p","a","n","y">>, <<"A","d","d","r","e","s","s">>>>,
                fld |-> <<"st", "co", "ch", "ow", "ad">>]
LayoutNoAddress == [hdr |-> <<<<"C","h","a","r","t","e","r","e","r">>, <<"S","t","a","t","u","s">>, <<"C","o","m","p","a","n","y">>, <<"O","w","n","e","r","s","h","i","p">>>>,
                    fld |-> <<"ch", "st", "co", "ow">>]

SearchRecs ==
    {[ch |-> <<"S","h","e","l","l">>,          st |-> <<"a","p","p","r","o","v","e","d">>, co |-> <<"S","h","e","l","l"," ","P","l","c">>, ow |-> <<>>, ad |-> <<"L","o","n","d","o","n">>],
     [ch |-> <<"S","h","e","l","l">>,          st |-> <<"R","e","j","e","c","t","e","d">>, co |-> <<"S","h","e","l","l"," ","B","V">>,  ow |-> <<>>, ad |-> <<"O","s","l","o">>],
     [ch |-> <<"R","o","y","a","l"," "," ","S","h","e","l","l","\t">>, st |-> <<>>,         co |-> <<"b","p">>,        ow |-> <<>>, ad |-> <<"R","o","m","e">>],
     [ch |-> <<"B","P">>,             st |-> <<"O","n"," ","h","o","l","d">>,  co |-> <<"B","P"," ","2"," ","L","t","d">>,  ow |-> <<>>, ad |-> <<>>]}

SheetOf(layout, recs) ==
    <<layout.hdr>> \o
    [i \in 1..Len(recs) |-> [j \in 1..Len(layout.fld) |-> recs[i][layout.fld[j]]]]

Queries == {<<>>, <<" ">>, <<"s","h","e","l","l">>, <<" ","S","H","E","L","L">>, <<"l"," ">>, <<"o","s","l","o">>, <<"2">>, <<"x","y","z">>, <<"b","p">>}

StoreIdle ==
    /\ sheet = <<>> /\ cache_valid = FALSE /\ df = <<>> /\ headers = <<>>
    /\ col_status = None /\ col_charterer = None /\ col_company = None
    /\ col_owner = None /\ col_address = None
FindColIdle == fc_cols = <<>> /\ fc_cands = <<>> /\ fc_result = NotCalled
NoMsg == [level |-> "none", text |-> "", detail |-> ""]
AdminIdle ==
    /\ admin_ok = FALSE /\ pw = "" /\ selected_label = Select /\ form = <<>>
    /\ form_changed = FALSE /\ msg = NoMsg /\ calls = <<>> /\ writes = 0
    /\ rerun = FALSE
SearchIdle ==
    /\ search_text = <<>> /\ show_only = TRUE /\ selected = Select /\ pick = None
    /\ user_picked = FALSE /\ df_filtered = <<>> /\ options_unique = <<>>
    /\ row = <<>>

\* The state after the first script run on a sheet.
FirstRun(values) ==
    LET ld == load_sheet(values)
        fatal == LoadFatal(ld)
    IN  /\ sheet = values
        /\ cache_valid = TRUE
        /\ df = ld.df
        /\ headers = ld.headers
        /\ col_status = ld.map.col_status
        /\ col_charterer = ld.map.col_charterer
        /\ col_company = ld.map.col_company
        /\ col_owner = ld.map.col_owner
        /\ col_address = ld.map.col_address
        /\ search_text = <<>>
        /\ show_only = TRUE
        /\ selected = Select
        /\ pick = None
        /\ user_picked = FALSE
        /\ df_filtered = IF fatal THEN <<>> ELSE ld.df
        /\ options_unique =
              IF fatal THEN <<>> ELSE Options(ld.df, ld.headers, ld.map.col_charterer)
        /\ row = <<>>

InitSearch ==
    /\ \E layout \in {LayoutPlain, LayoutLoose, LayoutNoAddress} :
       \E recs \in SeqsUpTo(SearchRecs, MaxSearchRows) :
          FirstRun(SheetOf(layout, recs))
    /\ AdminIdle
    /\ FindColIdle

NextSearch ==
    \/ \E q \in Queries, expired \in BOOLEAN : TypeSearch(q, expired)
    \/ \E expired \in BOOLEAN : ToggleShowOnly(expired)
    \/ \E v \in {Select} \cup {options_unique[i] : i \in 1..Len(options_unique)},
          expired \in BOOLEAN :
          SelectCharterer(v, expired)
    \/ \E label \in {MatchLabels(Shown, selected)[i] :
                        i \in 1..Len(MatchLabels(Shown, selected))},
          expired \in BOOLEAN :
          PickRecord(label, expired)

SpecSearch == InitSearch /\ [][NextSearch]_vars

(***************************************************************************)
(* Claims about the search, the selector and the details view               *)
(***************************************************************************)
\* The rows of df whose charterer contains the lower-cased text q
CharterRows(q) ==
    {i \in 1..Len(df) : Contains(Lower(q), Lower(Cell(df[i], headers, col_charterer)))}
\* The rows of df present in the table view
ShownRows == {i \in 1..Len(df) : \E j \in 1..Len(df_filtered) : df_filtered[j] = df[i]}
\* The table view lists rows of df, each once, in load order, addresses kept
TableKeepsAddresses ==
    /\ \A j \in 1..Len(df_filtered) : \E i \in 1..Len(df) : df_filtered[j] = df[i]
    /\ \A j, k \in 1..Len(df_filtered) :
          j < k => df_filtered[j]._rownum < df_filtered[k]._rownum

\* C6 as stated: with "Only show matches" on, a non-empty query that is a
\* case-insensitive substring of some row's Charterer value gives exactly the
\* rows whose Charterer value contains the query.
C6_RawQueryTier1 ==
    (show_only /\ search_text # <<>> /\ CharterRows(search_text) # {})
        => ShownRows = CharterRows(search_text)

\* C6 amended: the same with the query taken after trimming its leading and
\* trailing whitespace: when the trimmed query is non-empty and some row's
\* Charterer value contains it (case-insensitively), the table shows exactly
\* the rows whose Charterer value contains the trimmed query, with their
\* original row addresses.
C6_TrimmedQueryTier1 ==
    (show_only /\ Strip(search_text) # <<>> /\ CharterRows(Strip(search_text)) # {})
        => /\ ShownRows = CharterRows(Strip(search_text))
           /\ TableKeepsAddresses

\* C6 witness: a charterer match exists and a row that contains the query
\* only in another column is left out of the table.
C6_Witness ==
    /\ show_only /\ Strip(search_text) # <<>>
    /\ CharterRows(Strip(search_text)) # {}
    /\ \E i \in 1..Len(df) :
          /\ i \notin CharterRows(Strip(search_text))
          /\ Contains(Lower(Strip(search_text)), Lower(Join(df[i].cells, <<" ","|"," ">>)))
          /\ i \notin ShownRows

\* C7 as stated: with "Only show matches" on, a non-empty query that no row's
\* Charterer value contains gives exactly the rows whose cleaned sheet cells,
\* concatenated, contain the query; an empty result leaves the selector with
\* the sentinel only.
C7_Tier2SheetCellsOnly ==
    (show_only /\ search_text # <<>> /\ CharterRows(search_text) = {})
        => /\ ShownRows =
                {i \in 1..Len(df) :
                    Contains(Lower(search_text), Lower(Join(df[i].cells, <<" ","|"," ">>)))}
           /\ (df_filtered = <<>> => options_unique = <<>>)

\* C4 as stated: while the selected Charterer value is shared by several
\* rows, no row is resolved as the selection before the user has chosen one.
C4_NoRowBeforeExplicitPick ==
    (selected # Select /\ Len(Matches(df, headers, col_charterer, selected)) > 1
        /\ row # <<>>) => user_picked

(***************************************************************************)
(* Admin section: login, add form, edit form                                *)
(***************************************************************************)
STATUS_OPTIONS == <<<<"A","p","p","r","o","v","e","d">>, <<"P","e","n","d","i","n","g">>, <<"R","e","j","e","c","t","e","d">>>>

\* st.secrets["admin"]["password"]
AdminPassword == "s3cret"
Passwords == {AdminPassword, "guess"}

\* What the worksheet call of a form submission does: "ok", or the text of
\* the exception it raises.
Outcomes == {"ok", "APIError: PERMISSION_DENIED"}

_normalize_status(value) ==
    LET v == Lower(Strip(value))
    IN  IF v \in {<<"a","p","p","r","o","v","e","d">>, <<"a","p","p","r","o","v","e">>, <<"a">>} THEN <<"A","p","p","r","o","v","e","d">>
        ELSE IF v \in {<<"p","e","n","d","i","n","g">>, <<"i","n"," ","r","e","v","i","e","w">>, <<"r","e","v","i","e","w">>} THEN <<"P","e","n","d","i","n","g">>
        ELSE IF v \in {<<"r","e","j","e","c","t","e","d">>, <<"r","e","j","e","c","t">>, <<"d","e","c","l","i","n","e","d">>} THEN <<"R","e","j","e","c","t","e","d">>
        ELSE Strip(value)

RECURSIVE _colnum_to_a1(_)
_colnum_to_a1(n) ==
    IF n <= 0 THEN <<>>
    ELSE _colnum_to_a1((n - 1) \div 26) \o <<UpperChars[((n - 1) % 26) + 1]>>

\* row_dict.get(k, "")
Get(row_dict, k) == IF k \in DOMAIN row_dict THEN row_dict[k] ELSE <<>>

\* [_clean_cell(row_dict.get(h, "")) for h in headers]
RowValues(hs, row_dict) == [j \in 1..Len(hs) |-> _clean_cell(Get(row_dict, hs[j]))]

\* The order in which the forms fill their dict: Status, the four priority
\* fields, then the remaining headers.
RECURSIVE Without(_, _)
Without(xs, S) ==
    IF xs = <<>> THEN <<>>
    ELSE IF Head(xs) \in S THEN Without(Tail(xs), S)
    ELSE <<Head(xs)>> \o Without(Tail(xs), S)
FormOrder(hs) ==
    LET m == FieldMap(hs)
        first == <<m.col_status, m.col_charterer, m.col_company, m.col_owner,
                   m.col_address>>
    IN  first \o Without(hs, {first[i] : i \in 1..5})

\* An append that sends the values in the dict's own order.
append_row_dict_order(hs, row_dict) ==
    [op |-> "append", rng |-> <<>>,
     values |-> [j \in 1..Len(hs) |-> _clean_cell(Get(row_dict, FormOrder(hs)[j]))]]

\* append_row: the call ws.append_row(new_row, ...)
append_row(hs, row_dict) ==
    [op |-> "append", rng |-> <<>>, values |-> RowValues(hs, row_dict)]

\* An update that takes rownum for a position among the data rows.
update_row_data_index(hs, rownum, row_dict) ==
    [op |-> "update",
     rng |-> <<"A">> \o IntToStr(rownum - 1) \o <<":">> \o _colnum_to_a1(Len(hs))
                 \o IntToStr(rownum - 1),
     values |-> RowValues(hs, row_dict)]

\* update_row: the call ws.update(rng, [row_values], ...)
update_row(hs, rownum, row_dict) ==
    [op |-> "update",
     rng |-> <<"A">> \o IntToStr(rownum) \o <<":">> \o _colnum_to_a1(Len(hs))
                 \o IntToStr(rownum),
     values |-> RowValues(hs, row_dict)]

\* The worksheet's reading of an A1 range "A2:E2"
RECURSIVE LeadingLetters(_)
LeadingLetters(a) ==
    IF a # <<>> /\ (\E i \in 1..26 : UpperChars[i] = Head(a))
    THEN <<Head(a)>> \o LeadingLetters(Tail(a))
    ELSE <<>>
RECURSIVE A1Col(_)
A1Col(letters) ==
    IF letters = <<>> THEN 0
    ELSE 26 * A1Col(SubSeq(letters, 1, Len(letters) - 1))
         + (CHOOSE i \in 1..26 : UpperChars[i] = letters[Len(letters)])
A1Cell(a) ==
    [col |-> A1Col(LeadingLetters(a)),
     row |-> ParseInt(SubSeq(a, Len(LeadingLetters(a)) + 1, Len(a)))]
A1Range(rng) ==
    LET colon == CHOOSE i \in 1..Len(rng) : rng[i] = ":"
    IN  [from |-> A1Cell(SubSeq(rng, 1, colon - 1)),
         to |-> A1Cell(SubSeq(rng, colon + 1, Len(rng)))]

\* The worksheet after a call: append_row adds the row after the last one,
\* update writes the row of values into the cells of the range (a range
\* outside the rows read so far is not reached by the model).
WsApply(values, call) ==
    IF call.op = "append" THEN Append(values, call.values)
    ELSE LET r == A1Range(call.rng)
         IN  IF r.from.row \in 1..Len(values)
             THEN [values EXCEPT ![r.from.row] =
                     [k \in 1..Len(@) |->
                        IF k >= r.from.col /\ k <= r.to.col
                              /\ k - r.from.col + 1 <= Len(call.values)
                        THEN call.values[k - r.from.col + 1]
                        ELSE @[k]]]
             ELSE values

\* A gate that lets every session through.
is_admin_unlocked_open == TRUE

\* is_admin_unlocked()
is_admin_unlocked == admin_ok

\* A handler that clears the cache whatever the call did (a finally clause).
CacheValidAfterWriteAlwaysCleared(ok) == FALSE

\* st.cache_data.clear() is reached only when the call returned: the cache is
\* valid after the submission unless the call succeeded.
CacheValidAfterWrite(ok) == ~ok

\* df_edit["_label"]
EditLabels(ld) ==
    [i \in 1..Len(ld.df) |->
        <<"R","o","w"," ">> \o IntToStr(ld.df[i]._rownum)
          \o <<" ","|"," ">> \o Cell(ld.df[i], ld.headers, ld.map.col_charterer)
          \o <<" ","|"," ">> \o Cell(ld.df[i], ld.headers, ld.map.col_company)
          \o <<" ","|"," ">> \o Cell(ld.df[i], ld.headers, ld.map.col_status)]

\* The edit selectbox in a run: its stored value while the option list is the
\* one of the run before, else index 0, "(select)"
EditSelection(ld, stored) ==
    IF EditLabels(ld) = EditLabels(Shown) THEN stored ELSE Select

\* The widgets of a form that take typed text: the priority fields that are
\* headers, and every header not handled before
TextFields(ld) ==
    {ld.headers[j] : j \in 1..Len(ld.headers)} \ {ld.map.col_status}

\* new_data / edited: Status from the dropdown, then the priority fields that
\* are headers, then every remaining header, from the text widgets (in the
\* sheets of the model the Status column is none of the priority fields)
FormDict(ld, status, text) ==
    LET priority == {ld.map.col_charterer, ld.map.col_company, ld.map.col_owner,
                     ld.map.col_address}
               \cap {ld.headers[j] : j \in 1..Len(ld.headers)}
        keys == {ld.map.col_status} \cup priority \cup TextFields(ld)
    IN  [c \in keys |-> IF c = ld.map.col_status THEN status ELSE text[c]]

\* rec = df_edit[df_edit["_rownum"] == rownum].head(1)
EditRec(ld, label) ==
    LET IsRow(r) == r._rownum = LabelRownum(label)
    IN  SubSeq(SelectSeq(ld.df, IsRow), 1, 1)

\* existing = {h: rr.get(h, "") for h in headers}
Existing(ld, rr) == [h \in {ld.headers[j] : j \in 1..Len(ld.headers)} |-> Cell(rr, ld.headers, h)]

\* The Status dropdown of the edit form as it is first drawn
EditStatusDefault(existing_status) ==
    LET n == _normalize_status(existing_status)
        idx == IF \E i \in 1..Len(STATUS_OPTIONS) : STATUS_OPTIONS[i] = n
               THEN (CHOOSE i \in 1..Len(STATUS_OPTIONS) : STATUS_OPTIONS[i] = n) - 1
               ELSE 0
    IN  STATUS_OPTIONS[idx + 1]

\* What the user types into the forms.  Keep: the widget is left as drawn.
Keep == <<"<keep>">>
AddFills ==
    {[status |-> STATUS_OPTIONS[1], ch |-> <<"\t"," ">>,        other |-> <<"A","c","m","e","\t"," ","L","t","d">>],
     [status |-> STATUS_OPTIONS[2], ch |-> <<" ","B","P"," "," ","O","i","l"," ">>, other |-> <<"A","c","m","e","\t"," ","L","t","d">>]}
EditFills ==
    {[status |-> Keep,              ch |-> Keep,         other |-> Keep],
     [status |-> STATUS_OPTIONS[3], ch |-> <<"\t"," ">>,        other |-> Keep],
     [status |-> Keep,              ch |-> <<" ","B","P"," "," ","O","i","l"," ">>, other |-> <<"A","c","m","e","\t"," ","L","t","d">>]}

\* The charterer widget holds ch, every other text widget holds other.
Typed(ld, ch, other) ==
    [c \in TextFields(ld) |-> IF c = ld.map.col_charterer THEN ch ELSE other]

Or(x, default) == IF x = Keep THEN default ELSE x

\* The load and read sections of a run that goes on to the admin section
AdminRunRead(ld) ==
    RunRead(ld, search_text, show_only, selected, pick, user_picked)

\* admin_login_ui, the form submitted with password p; then st.stop()
SubmitLogin(p, expired) ==
    /\ ~rerun
    /\ ~is_admin_unlocked
    /\ \E ld \in {Loaded(expired)} : AdminRunRead(ld)
    /\ pw' = p
    /\ admin_ok' = (p = AdminPassword)
    /\ msg' = IF p = AdminPassword
              THEN [level |-> "success", text |-> "Admin unlocked.", detail |-> ""]
              ELSE [level |-> "error", text |-> "Incorrect password.", detail |-> ""]
    /\ calls' = <<>>
    /\ form' = <<>>
    /\ form_changed' = FALSE
    /\ UNCHANGED <<sheet, selected_label, writes, rerun, fcVars>>

\* What follows a worksheet call in both forms: the success message, the
\* cache clear and st.rerun() when it returned; the error message with the
\* exception's text when it raised
AfterCall(call, outcome, done, failed) ==
    /\ calls' = <<[op |-> call.op, rng |-> call.rng, values |-> call.values,
                   raised |-> IF outcome = "ok" THEN "" ELSE outcome]>>
    /\ sheet' = IF outcome = "ok" THEN WsApply(sheet, call) ELSE sheet
    /\ cache_valid' = CacheValidAfterWrite(outcome = "ok")
    /\ rerun' = (outcome = "ok")
    /\ msg' = IF outcome = "ok"
              THEN [level |-> "success", text |-> done, detail |-> ""]
              ELSE [level |-> "error", text |-> failed, detail |-> outcome]

\* The load and read sections of a run in which a form is submitted; the
\* submission decides what becomes of the cache
FormRunRead(ld) ==
    /\ PageShown(ld)
    /\ LoadSection(ld)
    /\ ReadSections(ld, search_text, show_only, selected, pick, user_picked)

\* The add form submitted
SubmitAdd(status, ch, other, outcome, expired) ==
    /\ ~rerun
    /\ writes < MaxWrites
    /\ is_admin_unlocked
    /\ \E ld \in {Loaded(expired)} :
       \E new_data \in {FormDict(ld, status, Typed(ld, ch, other))} :
           /\ FormRunRead(ld)
           /\ form' = new_data
           /\ form_changed' = TRUE
           /\ selected_label' = EditSelection(ld, selected_label)
           /\ IF _clean_cell(Get(new_data, ld.map.col_charterer)) = <<>>
              THEN /\ msg' = [level |-> "error", text |-> "Charterer is required.",
                              detail |-> ""]
                   /\ calls' = <<>>
                   /\ cache_valid' = TRUE
                   /\ UNCHANGED <<sheet, rerun>>
              ELSE AfterCall(append_row(ld.headers, new_data), outcome,
                             "Added successfully. Refreshing...",
                             "Failed to append row. Error: ")
    /\ writes' = writes + 1
    /\ UNCHANGED <<admin_ok, pw, fcVars>>

\* A record chosen in "Select record to edit"
SelectEditRecord(label, expired) ==
    /\ ~rerun
    /\ is_admin_unlocked
    /\ label # selected_label
    /\ \E ld \in {Loaded(expired)} :
           /\ label = Select \/ \E i \in 1..Len(ld.df) : EditLabels(ld)[i] = label
           /\ AdminRunRead(ld)
    /\ selected_label' = label
    /\ msg' = NoMsg
    /\ calls' = <<>>
    /\ form' = <<>>
    /\ form_changed' = FALSE
    /\ UNCHANGED <<sheet, admin_ok, pw, writes, rerun, fcVars>>

\* The edit form saved; Keep leaves a widget at the value it was drawn with
SaveEdit(status, ch, other, outcome, expired) ==
    /\ ~rerun
    /\ writes < MaxWrites
    /\ is_admin_unlocked
    /\ selected_label # Select
    /\ \E ld \in {Loaded(expired)} :
       \E rec \in {EditRec(ld, selected_label)} :
           /\ rec # <<>>
           /\ \E existing \in {Existing(ld, rec[1])} :
              \E edited \in {FormDict(ld,
                                Or(status, EditStatusDefault(Get(existing, ld.map.col_status))),
                                [c \in TextFields(ld) |->
                                    Or(Typed(ld, ch, other)[c], existing[c])])} :
                  /\ FormRunRead(ld)
                  /\ form' = edited
                  /\ form_changed' = ({status, ch, other} # {Keep})
                  /\ selected_label' = selected_label
                  /\ AfterCall(update_row(ld.headers, LabelRownum(selected_label), edited),
                               outcome,
                               "Updated successfully. Refreshing...",
                               "Failed to update row. Error: ")
    /\ writes' = writes + 1
    /\ UNCHANGED <<admin_ok, pw, fcVars>>

\* The run st.rerun() asked for: the cache was cleared, load_sheet reads
\* the worksheet again
Rerun ==
    /\ rerun
    /\ \E ld \in {Loaded(FALSE)} :
           /\ LoadSection(ld)
           /\ IF LoadFatal(ld)
              THEN UNCHANGED searchVars
              ELSE ReadSections(ld, search_text, show_only, selected, pick, user_picked)
           /\ selected_label' = EditSelection(ld, selected_label)
    /\ cache_valid' = TRUE
    /\ rerun' = FALSE
    /\ msg' = NoMsg
    /\ calls' = <<>>
    /\ form' = <<>>
    /\ form_changed' = FALSE
    /\ UNCHANGED <<sheet, admin_ok, pw, writes, fcVars>>

\* The rows a worksheet holds when the admin session starts
AdminRecs ==
    {[ch |-> <<"S","h","e","l","l">>,          st |-> <<"a","p","p","r","o","v","e","d">>, co |-> <<"S","h","e","l","l"," ","P","l","c">>, ow |-> <<>>, ad |-> <<"L","o","n","d","o","n">>],
     [ch |-> <<"R","o","y","a","l"," "," ","S","h","e","l","l","\t">>, st |-> <<>>,         co |-> <<"b","p">>,        ow |-> <<>>, ad |-> <<"R","o","m","e">>]}

Init ==
    /\ \E layout \in {LayoutPlain, LayoutLoose} :
       \E recs \in SeqsUpTo(AdminRecs, MaxInitRows) :
          FirstRun(SheetOf(layout, recs))
    /\ AdminIdle
    /\ FindColIdle

Next ==
    \/ \E p \in Passwords, expired \in BOOLEAN : SubmitLogin(p, expired)
    \/ \E fill \in AddFills, outcome \in Outcomes, expired \in BOOLEAN :
          SubmitAdd(fill.status, fill.ch, fill.other, outcome, expired)
    \/ \E label \in {Select} \cup {EditLabels(Shown)[i] : i \in 1..Len(df)},
          expired \in BOOLEAN :
          SelectEditRecord(label, expired)
    \/ \E fill \in EditFills, outcome \in Outcomes, expired \in BOOLEAN :
          SaveEdit(fill.status, fill.ch, fill.other, outcome, expired)
    \/ Rerun

Spec == Init /\ [][Next]_vars

(***************************************************************************)
(* Claims about the admin section.  After a successful submission the       *)
(* script has called st.rerun(): until that run, df is still the table as   *)
(* loaded before the call, sheet is the worksheet after it, form is the     *)
(* submitted dict and calls holds the worksheet calls of the submission.    *)
(***************************************************************************)
UpdateDone == rerun /\ calls # <<>> /\ calls[Len(calls)].op = "update"
AppendDone == rerun /\ calls # <<>> /\ calls[Len(calls)].op = "append"

\* The address of the row whose label is selected in the edit form
SelectedAddress ==
    df[CHOOSE i \in 1..Len(df) : EditLabels(Shown)[i] = selected_label]._rownum

\* The table a reload gives
Reloaded == load_sheet(sheet).df

\* C1: a successful Update issues one overwrite of the range A{R}:{last
\* header column}{R}; after reload exactly one row sits at address R, it
\* holds the new (cleaned) values, and every other row keeps its address and
\* its content.
C1_UpdateOverwritesOnlyRowR ==
    UpdateDone =>
        /\ Len(calls) = 1
        /\ calls[1].rng = <<"A">> \o IntToStr(SelectedAddress) \o <<":">>
                             \o <<UpperChars[Len(headers)]>> \o IntToStr(SelectedAddress)
        /\ Len(Reloaded) = Len(df)
        /\ Cardinality({i \in 1..Len(Reloaded) :
                           Reloaded[i]._rownum = SelectedAddress}) = 1
        /\ \A i \in 1..Len(Reloaded) :
              IF Reloaded[i]._rownum = SelectedAddress
              THEN \A j \in 1..Len(headers) :
                      Reloaded[i].cells[j] = _clean_cell(form[headers[j]])
              ELSE Reloaded[i] = df[i]

\* C1 witness: of two rows with the same Charterer the later one has been
\* overwritten with other values.
C1_Witness ==
    /\ UpdateDone
    /\ \E i, k \in 1..Len(df) :
          /\ i < k
          /\ Cell(df[i], headers, col_charterer) = Cell(df[k], headers, col_charterer)
          /\ df[k]._rownum = SelectedAddress
          /\ Reloaded[k] # df[k]
          /\ Reloaded[i] = df[i]

\* C2: the flag starts false, turns true only on the correct password, and
\* no step calls the worksheet or changes it while the flag is false.
C2_WritesOnlyWhenUnlocked ==
    /\ admin_ok = FALSE
    /\ [][/\ (admin_ok' /\ ~admin_ok) => pw' = AdminPassword
          /\ (writes' # writes /\ calls' # <<>>) => (admin_ok /\ admin_ok')
          /\ sheet' # sheet => admin_ok]_vars

\* C2 witness: the correct password was submitted and a later submission
\* has called the worksheet.
C2_Witness == admin_ok /\ pw = AdminPassword /\ calls # <<>>

\* C3: a submission that calls the worksheet clears the cache exactly when
\* the call returned; then the rerun reads the worksheet again and shows the
\* mutation.  When the call raised, the error is shown with the exception's
\* text, the worksheet and the cached table stay as they were and no rerun
\* is asked for.
C3_CacheClearedIffSuccess ==
    [][/\ (writes' # writes /\ calls' # <<>>) =>
             /\ (cache_valid' = FALSE) <=> (calls'[1].raised = "")
             /\ calls'[1].raised = "" =>
                   /\ rerun'
                   /\ msg'.level = "success"
             /\ calls'[1].raised # "" =>
                   /\ msg'.level = "error"
                   /\ msg'.detail = calls'[1].raised
                   /\ sheet' = sheet
                   /\ df' = df
                   /\ ~rerun'
       /\ (rerun /\ ~rerun') => (cache_valid' /\ df' = load_sheet(sheet').df)]_vars

\* C3 witness: a call raised; the error is shown and the cache is valid.
C3_Witness ==
    /\ calls # <<>> /\ calls[1].raised # ""
    /\ msg.level = "error" /\ msg.detail = calls[1].raised
    /\ cache_valid /\ ~rerun

\* C5 as stated: a submitted form (add or edit) whose Charterer value cleans
\* to the empty string makes no worksheet call and changes nothing.
C5_EmptyCharterNoCall ==
    (form # <<>> /\ _clean_cell(Get(form, col_charterer)) = <<>>)
        => (calls = <<>> /\ ~rerun)

\* C9: a successful Append adds exactly one row, at the end; the values sent
\* are the cleaned submitted values in header order; after reload the last
\* row holds them, and every earlier row keeps its address and content.
C9_AppendRoundTrip ==
    AppendDone =>
        /\ Len(calls) = 1
        /\ _clean_cell(Get(form, col_charterer)) # <<>>
        /\ Len(calls[1].values) = Len(headers)
        /\ \A j \in 1..Len(headers) :
              calls[1].values[j] = _clean_cell(Get(form, headers[j]))
        /\ Len(Reloaded) = Len(df) + 1
        /\ \A i \in 1..Len(df) : Reloaded[i] = df[i]
        /\ Reloaded[Len(df) + 1]._rownum = Len(df) + 2
        /\ \A j \in 1..Len(headers) :
              Reloaded[Len(df) + 1].cells[j] = _clean_cell(Get(form, headers[j]))

\* C9 witness: a row was appended to a sheet with data rows, and a submitted
\* value was changed by the cleaning.
C9_Witness ==
    /\ AppendDone
    /\ Len(df) >= 2
    /\ \E j \in 1..Len(headers) :
          /\ Get(form, headers[j]) # _clean_cell(Get(form, headers[j]))
          /\ _clean_cell(Get(form, headers[j])) # <<>>

\* C10 as stated: saving the edit form with no widget changed writes, for
\* every header, the value loaded for the row, the Status column as the
\* canonical form of the loaded status (the loaded value itself when it is
\* empty or unclassified).
C10_UnchangedSavePreserves ==
    (UpdateDone /\ ~form_changed) =>
        \A i \in 1..Len(df) :
            df[i]._rownum = SelectedAddress =>
                \A j \in 1..Len(headers) :
                    calls[1].values[j] =
                        IF headers[j] = col_status
                        THEN _normalize_status(df[i].cells[j])
                        ELSE df[i].cells[j]

(***************************************************************************)
(* Column Resolver on its own: _find_col applied to bounded header and      *)
(* candidate lists.                                                         *)
(***************************************************************************)
HeaderSamples ==
    {<<"S","t","a","t","u","s">>, <<"S","T","A","T","U","S">>, <<"S","a","n","c","t","i","o","n","s"," ","S","t","a","t","u","s">>, <<"s","t","a","t","u","s">>, <<"C","o","m","p","a","n","y">>,
     <<"P","a","r","e","n","t"," ","C","o","m","p","a","n","y">>, <<"_","r","o","w","n","u","m">>}
CandSamples == {<<"S","t","a","t","u","s">>, <<"C","o","m","p","a","n","y">>, <<"O","w","n","e","r","s","h","i","p">>, <<"S","t","a","t">>}

InitFindCol ==
    /\ StoreIdle /\ SearchIdle /\ AdminIdle
    /\ fc_cols \in SeqsUpTo(HeaderSamples, MaxCols)
    /\ fc_cands \in SeqsUpTo(CandSamples, MaxCands)
    /\ fc_result = NotCalled

CallFindCol ==
    /\ fc_result = NotCalled
    /\ fc_result' = _find_col(fc_cols, fc_cands)
    /\ UNCHANGED <<fc_cols, fc_cands, storeVars, searchVars, adminVars>>

NextFindCol == CallFindCol

SpecFindCol == InitFindCol /\ [][NextFindCol]_vars

\* C8 helpers: the candidates that have an exact (case-insensitive) header,
\* and the headers that contain some candidate.
ExactCands == {k \in 1..Len(fc_cands) :
                 \E i \in 1..Len(fc_cols) : Lower(fc_cols[i]) = Lower(fc_cands[k])}
ContainingCols == {i \in 1..Len(fc_cols) :
                     \E k \in 1..Len(fc_cands) :
                        Contains(Lower(fc_cands[k]), Lower(fc_cols[i]))}

\* C8: when some header equals some candidate case-insensitively, _find_col
\* returns a header that equals, case-insensitively, the first candidate that
\* has such a header; with no exact match it returns the first header in
\* header order that contains a candidate; with neither it returns None.
C8_ExactMatchFirst ==
    fc_result # NotCalled =>
        IF ExactCands # {}
        THEN /\ \E i \in 1..Len(fc_cols) : fc_cols[i] = fc_result
             /\ Lower(fc_result) = Lower(fc_cands[Min(ExactCands)])
        ELSE IF ContainingCols # {}
             THEN fc_result = fc_cols[Min(ContainingCols)]
             ELSE fc_result = None

\* C8 witness: an exact header sits after a header that only contains the
\* candidate, and the exact one has been returned.
C8_Witness ==
    /\ fc_result # NotCalled
    /\ ExactCands # {}
    /\ Min(ContainingCols) \notin
         {i \in 1..Len(fc_cols) : Lower(fc_cols[i]) = Lower(fc_cands[Min(ExactCands)])}
    /\ fc_result # fc_cols[Min(ContainingCols)]
====
